---- MODULE Spec2Model ----
(***************************************************************************)
(* Model of v2/pkg/options/windows/windows.go: the Windows option record,  *)
(* its enumerated constants, the RGB colour-packing helper and the default *)
(* message catalogue, together with a caller that uses them.               *)
(***************************************************************************)
EXTENDS Integers, Sequences, FiniteSets, TLC

VARIABLES pending, rgbArgs, col, prevArgs, prevCol, calls,
          heap, lastRet, writes, firstDefaults,
          opts, chosen, lastOp

vars == <<pending, rgbArgs, col, prevArgs, prevCol, calls,
          heap, lastRet, writes, firstDefaults,
          opts, chosen, lastOp>>

rgbVars == <<pending, rgbArgs, col, prevArgs, prevCol, calls>>
msgVars == <<heap, lastRet, writes, firstDefaults>>
optVars == <<opts, chosen>>

(***************************************************************************)
(* Fixed-width integer arithmetic.  int32 values are kept as sign bit plus *)
(* low 31 bits so that no intermediate value leaves the 32-bit range.      *)
(***************************************************************************)
MaxInt32 == 2147483647
MinInt32 == (-2147483647) - 1
MaxUint8 == 255

RECURSIVE Pow2(_)
Pow2(n) == IF n = 0 THEN 1 ELSE 2 * Pow2(n - 1)

\* bitwise OR / AND of two naturals, bit by bit
RECURSIVE OrNat(_, _)
OrNat(x, y) ==
    IF x = 0 THEN y
    ELSE IF y = 0 THEN x
    ELSE (IF (x % 2 = 1) \/ (y % 2 = 1) THEN 1 ELSE 0)
         + 2 * OrNat(x \div 2, y \div 2)

RECURSIVE AndNat(_, _)
AndNat(x, y) ==
    IF x = 0 \/ y = 0 THEN 0
    ELSE (IF (x % 2 = 1) /\ (y % 2 = 1) THEN 1 ELSE 0)
         + 2 * AndNat(x \div 2, y \div 2)

\* bit i (0 = least significant) of a natural
RECURSIVE BitAt(_, _)
BitAt(x, i) == IF i = 0 THEN x % 2 ELSE BitAt(x \div 2, i - 1)

\* two's-complement view of an int32: sign bit and low 31 bits
Sign32(x) == x < 0
Low31(x) == IF x >= 0 THEN x ELSE (x + MaxInt32) + 1
Compose32(s, l) == IF s THEN (l - MaxInt32) - 1 ELSE l

\* int32 | int32
Or32(x, y) == Compose32(Sign32(x) \/ Sign32(y), OrNat(Low31(x), Low31(y)))

\* int32 & int32
And32(x, y) == Compose32(Sign32(x) /\ Sign32(y), AndNat(Low31(x), Low31(y)))

\* int32 << k (0 < k < 32): the high k bits are discarded, bit 31-k becomes
\* the sign bit
Shl32(x, k) ==
    LET kept == Low31(x) % Pow2(32 - k)
        top  == Pow2(31 - k)
    IN  IF kept >= top THEN Compose32(TRUE, (kept - top) * Pow2(k))
        ELSE kept * Pow2(k)

\* int32 >> k (arithmetic shift, k > 0)
Shr32(x, k) ==
    IF x >= 0 THEN x \div Pow2(k)
    ELSE Compose32(TRUE, OrNat(Low31(x) \div Pow2(k),
                               MaxInt32 - (Pow2(31 - k) - 1)))

\* int32(v) for a uint8 v
Int32OfUint8(v) == v

(***************************************************************************)
(* func RGB(r, g, b uint8) int32                                           *)
(***************************************************************************)
\* faulty variant: channels packed in the order 0x00RRGGBB
RGBSwapped(r, g, b) ==
    LET col0 == Int32OfUint8(r)
        col1 == Or32(Shl32(col0, 8), Int32OfUint8(g))
        col2 == Or32(Shl32(col1, 8), Int32OfUint8(b))
    IN  col2

\* faulty variant: first shift by 16, so blue lands in bits 24..31
RGBShift16(r, g, b) ==
    LET col0 == Int32OfUint8(b)
        col1 == Or32(Shl32(col0, 16), Int32OfUint8(g))
        col2 == Or32(Shl32(col1, 8), Int32OfUint8(r))
    IN  col2

\* faulty variant: first shift by 4, so blue and green overlap
RGBShift4(r, g, b) ==
    LET col0 == Int32OfUint8(b)
        col1 == Or32(Shl32(col0, 4), Int32OfUint8(g))
        col2 == Or32(Shl32(col1, 8), Int32OfUint8(r))
    IN  col2

RGB(r, g, b) ==
    LET col0 == Int32OfUint8(b)
        col1 == Or32(Shl32(col0, 8), Int32OfUint8(g))
        col2 == Or32(Shl32(col1, 8), Int32OfUint8(r))
    IN  col2

(***************************************************************************)
(* Bounds of the model and the values the caller draws its inputs from.    *)
(***************************************************************************)
MaxRecords == 2     \* DefaultMessages() calls whose records are kept
MaxWrites  == 2     \* caller writes to fields of returned records
MaxFlags   == 4     \* flags OR-ed into the DLLSearchPaths masks, in all

\* every value of a uint8 channel
Uint8 == 0..MaxUint8
\* channel values combined freely, the spec's examples included
Channel == {0, 1, 16, 32, 48, 128, MaxUint8}
\* the extreme values of a channel and the one that sets its top bit
Edge == {0, 128, MaxUint8}
\* arguments of the first RGB call: every triple over Channel, and every
\* uint8 value in each channel with the other two channels at an edge
FirstArgs ==
    (Channel \X Channel \X Channel)
    \cup (Uint8 \X Edge \X Edge)
    \cup (Edge \X Uint8 \X Edge)
    \cup (Edge \X Edge \X Uint8)
\* arguments of the second RGB call
SecondArgs ==
    ({0, MaxUint8} \X {0, MaxUint8} \X {0, MaxUint8})
    \cup {<<16, 32, 48>>, <<48, 32, 16>>}
\* the RGB calls a caller makes while it also uses the message catalogue
SmallCalls == <<<<MaxUint8, 0, 0>>, <<16, 32, 48>>>>
\* what a caller stores into a message field
WriteVals == {"", "custom"}

(***************************************************************************)
(* type Messages struct and func DefaultMessages() *Messages               *)
(***************************************************************************)
MessagesFields ==
    {"InstallationRequired", "UpdateRequired", "MissingRequirements",
     "Webview2NotInstalled", "Error", "FailedToInstall", "DownloadPage",
     "PressOKToInstall", "ContactAdmin", "InvalidFixedWebview2",
     "WebView2ProcessCrash"}

\* the zero value of Messages: every string field empty
MessagesZero == [f \in MessagesFields |-> ""]

\* faulty variant: the literal forgets ContactAdmin
DefaultMessagesLiteralShort ==
    [InstallationRequired |-> "The WebView2 runtime is required. Press Ok to download and install. Note: The installer will download silently so please wait.",
     UpdateRequired       |-> "The WebView2 runtime needs updating. Press Ok to download and install. Note: The installer will download silently so please wait.",
     MissingRequirements  |-> "Missing Requirements",
     Webview2NotInstalled |-> "WebView2 runtime not installed",
     Error                |-> "Error",
     FailedToInstall      |-> "The runtime failed to install correctly. Please try again.",
     DownloadPage         |-> "This application requires the WebView2 runtime. Press OK to open the download page. Minimum version required: ",
     PressOKToInstall     |-> "Press Ok to install.",
     InvalidFixedWebview2 |-> "The WebView2 runtime is manually specified, but It is not valid. Check minimum required version and webview2 path.",
     WebView2ProcessCrash |-> "The WebView2 process crashed and the application needs to be restarted."]

\* the keyed elements of the composite literal in DefaultMessages
DefaultMessagesLiteral ==
    [InstallationRequired |-> "The WebView2 runtime is required. Press Ok to download and install. Note: The installer will download silently so please wait.",
     UpdateRequired       |-> "The WebView2 runtime needs updating. Press Ok to download and install. Note: The installer will download silently so please wait.",
     MissingRequirements  |-> "Missing Requirements",
     Webview2NotInstalled |-> "WebView2 runtime not installed",
     Error                |-> "Error",
     FailedToInstall      |-> "The runtime failed to install correctly. Please try again.",
     DownloadPage         |-> "This application requires the WebView2 runtime. Press OK to open the download page. Minimum version required: ",
     PressOKToInstall     |-> "Press Ok to install.",
     ContactAdmin         |-> "The WebView2 runtime is required to run this application. Please contact your system administrator.",
     InvalidFixedWebview2 |-> "The WebView2 runtime is manually specified, but It is not valid. Check minimum required version and webview2 path.",
     WebView2ProcessCrash |-> "The WebView2 process crashed and the application needs to be restarted."]

\* a composite literal: the zero value with the keyed fields set
MessagesValue(lit) ==
    [f \in MessagesFields |-> IF f \in DOMAIN lit THEN lit[f] ELSE MessagesZero[f]]

\* faulty variant: one package-level record is handed out on every call
DefaultMessagesShared(h) ==
    IF h = <<>> THEN <<[f \in MessagesFields |->
                          IF f \in DOMAIN DefaultMessagesLiteral
                          THEN DefaultMessagesLiteral[f] ELSE ""]>>
    ELSE h

\* &Messages{...}: a new record is allocated on every call; the pointer
\* returned is its index in the heap
DefaultMessages(h) == Append(h, MessagesValue(DefaultMessagesLiteral))

(***************************************************************************)
(* Enumerated constants.                                                   *)
(***************************************************************************)
\* type Theme int
SystemDefault == 0
Dark == 1
\* faulty variant: Light given Dark's value
LightDup == Dark
Light == 2

\* type BackdropType int32
Auto == 0
None == 1
Mica == 2
Acrylic == 3
Tabbed == 4

\* DLL search flags (uint32), values as given beside each constant
\* faulty variant: the default is not the empty mask
DLLSearchDefaultOne == 0 + 1
DLLSearchDefault == 0
DLLSearchDontResolveDllReferences == 1
DLLSearchAsDataFile == 2
\* faulty variant: 0x4 written for 0x8
DLLSearchWithAlteredPath4 == 2 * DLLSearchAsDataFile
DLLSearchWithAlteredPath == 8
DLLSearchIgnoreCodeAuthzLevel == 16
DLLSearchAsImageResource == 32
DLLSearchAsDataFileExclusive == 64
DLLSearchRequireSignedTarget == 128
DLLSearchDllLoadDir == 256
DLLSearchApplicationDir == 512
\* faulty variant: 0x600 written for 0x400, overlapping DLLSearchApplicationDir
DLLSearchUserDirsOverlap == DLLSearchApplicationDir + 1024
DLLSearchUserDirs == 1024
DLLSearchSystem32 == 2048
DLLSearchDefaultDirs == 4096
DLLSearchSafeCurrentDirs == 8192
DLLSearchSystem32NoForwarder == 16384
DLLSearchOsIntegrityContinuity == 32768

\* the named constants of each enumeration, by name
ThemeValue ==
    [SystemDefault |-> SystemDefault, Dark |-> Dark, Light |-> Light]

BackdropTypeValue ==
    [Auto |-> Auto, None |-> None, Mica |-> Mica, Acrylic |-> Acrylic,
     Tabbed |-> Tabbed]

DLLSearchValue ==
    [DLLSearchDefault                  |-> DLLSearchDefault,
     DLLSearchDontResolveDllReferences |-> DLLSearchDontResolveDllReferences,
     DLLSearchAsDataFile               |-> DLLSearchAsDataFile,
     DLLSearchWithAlteredPath          |-> DLLSearchWithAlteredPath,
     DLLSearchIgnoreCodeAuthzLevel     |-> DLLSearchIgnoreCodeAuthzLevel,
     DLLSearchAsImageResource          |-> DLLSearchAsImageResource,
     DLLSearchAsDataFileExclusive      |-> DLLSearchAsDataFileExclusive,
     DLLSearchRequireSignedTarget      |-> DLLSearchRequireSignedTarget,
     DLLSearchDllLoadDir               |-> DLLSearchDllLoadDir,
     DLLSearchApplicationDir           |-> DLLSearchApplicationDir,
     DLLSearchUserDirs                 |-> DLLSearchUserDirs,
     DLLSearchSystem32                 |-> DLLSearchSystem32,
     DLLSearchDefaultDirs              |-> DLLSearchDefaultDirs,
     DLLSearchSafeCurrentDirs          |-> DLLSearchSafeCurrentDirs,
     DLLSearchSystem32NoForwarder      |-> DLLSearchSystem32NoForwarder,
     DLLSearchOsIntegrityContinuity    |-> DLLSearchOsIntegrityContinuity]

ThemeNames == DOMAIN ThemeValue
BackdropTypeNames == DOMAIN BackdropTypeValue
DLLSearchNames == DOMAIN DLLSearchValue

\* uint32 | uint32 and uint32 & uint32 (masks built from the flags above
\* stay below 2^16)
OrUint32(x, y) == OrNat(x, y)
AndUint32(x, y) == AndNat(x, y)

(***************************************************************************)
(* type Options struct: the zero value of every field.  Pointers and       *)
(* callbacks are nil (0), strings empty, numbers 0, booleans false.        *)
(***************************************************************************)
OptionsZero ==
    [WebviewIsTransparent                |-> FALSE,
     WindowIsTranslucent                 |-> FALSE,
     DisableWindowIcon                   |-> FALSE,
     IsZoomControlEnabled                |-> FALSE,
     ZoomFactor                          |-> 0,
     DisablePinchZoom                    |-> FALSE,
     DisableFramelessWindowDecorations   |-> FALSE,
     WebviewUserDataPath                 |-> "",
     WebviewBrowserPath                  |-> "",
     Theme                               |-> 0,
     CustomTheme                         |-> 0,
     BackdropType                        |-> 0,
     Messages                            |-> 0,
     ResizeDebounceMS                    |-> 0,
     OnSuspend                           |-> 0,
     OnResume                            |-> 0,
     WebviewGpuIsDisabled                |-> FALSE,
     WebviewDisableRendererCodeIntegrity |-> FALSE,
     EnableSwipeGestures                 |-> FALSE,
     WindowClassName                     |-> "",
     DLLSearchPaths                      |-> 0]

\* the two option records a caller configures
OptionRecords == {"A", "B"}

\* which named constants the caller has used for a record ("" = none yet)
ChosenZero == [Theme |-> "", BackdropType |-> "", DLLSearchPaths |-> {}]

(***************************************************************************)
(* Initial state: nothing called, both option records zero-valued.         *)
(***************************************************************************)
InitRest ==
    /\ rgbArgs = <<0, 0, 0>>
    /\ col = 0
    /\ prevArgs = <<0, 0, 0>>
    /\ prevCol = 0
    /\ calls = 0
    /\ heap = <<>>
    /\ lastRet = 0
    /\ writes = 0
    /\ firstDefaults = MessagesZero
    /\ opts = [o \in OptionRecords |-> OptionsZero]
    /\ chosen = [o \in OptionRecords |-> ChosenZero]
    /\ lastOp = "init"

\* the caller is about to make the calls of SmallCalls
Init ==
    /\ pending = SmallCalls
    /\ InitRest

\* the caller is about to make two RGB calls
InitRGB ==
    /\ pending \in {<<a, b>> : a \in FirstArgs, b \in SecondArgs}
    /\ InitRest

(***************************************************************************)
(* Operations.                                                             *)
(***************************************************************************)
\* c := RGB(r, g, b) with the next pending arguments; the previous call and
\* its result are remembered
CallRGB ==
    /\ pending # <<>>
    /\ LET a == Head(pending)
       IN  /\ rgbArgs' = a
           /\ col' = RGB(a[1], a[2], a[3])
    /\ pending' = Tail(pending)
    /\ prevArgs' = rgbArgs
    /\ prevCol' = col
    /\ calls' = calls + 1
    /\ lastOp' = "RGB"
    /\ UNCHANGED <<msgVars, optVars>>

\* m := DefaultMessages()
CallDefaultMessages ==
    /\ Len(heap) < MaxRecords
    /\ heap' = DefaultMessages(heap)
    /\ lastRet' = Len(heap')
    /\ firstDefaults' = IF heap = <<>> THEN heap'[lastRet'] ELSE firstDefaults
    /\ lastOp' = "DefaultMessages"
    /\ UNCHANGED <<rgbVars, optVars, writes>>

\* m.Field = v, by the caller, on a record returned earlier
WriteField ==
    /\ writes < MaxWrites
    /\ \E p \in DOMAIN heap, f \in MessagesFields, v \in WriteVals :
        heap' = [heap EXCEPT ![p][f] = v]
    /\ writes' = writes + 1
    /\ lastOp' = "write"
    /\ UNCHANGED <<rgbVars, optVars, lastRet, firstDefaults>>

\* o.Theme = <named Theme constant>
SetTheme ==
    \E o \in OptionRecords, n \in ThemeNames :
        /\ opts' = [opts EXCEPT ![o].Theme = ThemeValue[n]]
        /\ chosen' = [chosen EXCEPT ![o].Theme = n]
        /\ UNCHANGED <<rgbVars, msgVars, lastOp>>

\* o.BackdropType = <named BackdropType constant>
SetBackdropType ==
    \E o \in OptionRecords, n \in BackdropTypeNames :
        /\ opts' = [opts EXCEPT ![o].BackdropType = BackdropTypeValue[n]]
        /\ chosen' = [chosen EXCEPT ![o].BackdropType = n]
        /\ UNCHANGED <<rgbVars, msgVars, lastOp>>

\* o.DLLSearchPaths = <named flag>
SetDLLSearchPaths ==
    \E o \in OptionRecords, n \in DLLSearchNames :
        /\ opts' = [opts EXCEPT ![o].DLLSearchPaths = DLLSearchValue[n]]
        /\ chosen' = [chosen EXCEPT ![o].DLLSearchPaths = {n}]
        /\ UNCHANGED <<rgbVars, msgVars, lastOp>>

\* the flags OR-ed into the two records once n is OR-ed into record o
FlagsUsed(o, n) ==
    Cardinality(chosen[o].DLLSearchPaths \cup {n})
    + Cardinality(UNION {chosen[x].DLLSearchPaths : x \in OptionRecords \ {o}})

\* o.DLLSearchPaths |= <named flag>  ("combine multiple flags with bitwise OR")
OrDLLSearchPaths ==
    \E o \in OptionRecords, n \in DLLSearchNames :
        /\ FlagsUsed(o, n) <= MaxFlags
        /\ opts' = [opts EXCEPT ![o].DLLSearchPaths =
                        OrUint32(@, DLLSearchValue[n])]
        /\ chosen' = [chosen EXCEPT ![o].DLLSearchPaths = @ \cup {n}]
        /\ UNCHANGED <<rgbVars, msgVars, lastOp>>

(***************************************************************************)
(* Specifications.                                                         *)
(*   Spec     - the message catalogue used together with RGB               *)
(*   SpecRGB  - RGB alone, over the wider channel set                      *)
(*   SpecOpts - option records assigned named constants                    *)
(*   SpecDLL  - DLLSearchPaths masks built by OR-ing flags                 *)
(***************************************************************************)
Next == CallDefaultMessages \/ WriteField \/ CallRGB
Spec == Init /\ [][Next]_vars

NextRGB == CallRGB
SpecRGB == InitRGB /\ [][NextRGB]_vars

NextOpts == SetTheme \/ SetBackdropType \/ SetDLLSearchPaths
SpecOpts == Init /\ [][NextOpts]_vars

NextDLL == OrDLLSearchPaths
SpecDLL == Init /\ [][NextDLL]_vars

(***************************************************************************)
(* Properties.                                                             *)
(***************************************************************************)
\* the arguments of the latest RGB call
ArgR == rgbArgs[1]
ArgG == rgbArgs[2]
ArgB == rgbArgs[3]

\* C1: for 8-bit r, g, b, RGB(r, g, b) is exactly (b<<16) | (g<<8) | r;
\* RGB(255,0,0) = 0x000000FF, RGB(0,255,0) = 0x0000FF00,
\* RGB(0,0,255) = 0x00FF0000 and RGB(16,32,48) = 0x00302010.
C1_RGBPacksBGR ==
    lastOp = "RGB" =>
        /\ col = OrNat(OrNat(ArgB * 65536, ArgG * 256), ArgR)
        /\ col = ArgB * 65536 + ArgG * 256 + ArgR
        /\ (rgbArgs = <<255, 0, 0>> => col = 255)
        /\ (rgbArgs = <<0, 255, 0>> => col = 65280)
        /\ (rgbArgs = <<0, 0, 255>> => col = 16711680)
        /\ (rgbArgs = <<16, 32, 48>> => col = 3153936)

C1_Witness ==
    /\ lastOp = "RGB"
    /\ calls = 2
    /\ prevArgs = <<0, 0, 255>>
    /\ prevCol = 16711680
    /\ rgbArgs = <<16, 32, 48>>
    /\ col = 3153936

\* C2: for 8-bit r, g, b, the result of RGB is laid out as 0x00BBGGRR: bits
\* 24..31 are zero, the value lies in 0..0x00FFFFFF and is not negative as an
\* int32; neither left shift by 8 overflows int32.
C2_RGBTopByteZero ==
    lastOp = "RGB" =>
        /\ col \in 0..16777215
        /\ ~Sign32(col)
        /\ \A i \in 24..30 : BitAt(Low31(col), i) = 0
        /\ And32(col, (-16777215) - 1) = 0
        /\ Shl32(Int32OfUint8(ArgB), 8) = ArgB * 256
        /\ Shl32(ArgB * 256 + ArgG, 8) = (ArgB * 256 + ArgG) * 256

C2_Witness ==
    /\ lastOp = "RGB"
    /\ calls = 2
    /\ prevArgs = <<128, 200, 255>>
    /\ prevCol = 16763008
    /\ rgbArgs = <<255, 255, 255>>
    /\ col = 16777215

\* C9: RGB loses nothing: with c = RGB(r, g, b), c & 0xFF = r,
\* (c >> 8) & 0xFF = g and (c >> 16) & 0xFF = b; two calls with equal results
\* had equal arguments.
C9_RGBLossless ==
    lastOp = "RGB" =>
        /\ And32(col, 255) = ArgR
        /\ And32(Shr32(col, 8), 255) = ArgG
        /\ And32(Shr32(col, 16), 255) = ArgB
        /\ (calls = 2 /\ col = prevCol => rgbArgs = prevArgs)

C9_Witness ==
    /\ lastOp = "RGB"
    /\ calls = 2
    /\ prevArgs = <<16, 32, 48>>
    /\ prevCol = 3153936
    /\ rgbArgs = <<48, 32, 16>>
    /\ col = 1056816
    /\ And32(Shr32(col, 16), 255) = 16

\* C3: the record DefaultMessages() returns has exactly the eleven string
\* fields of Messages, and every one of them is a non-empty string.
C3_DefaultMessagesComplete ==
    lastOp = "DefaultMessages" =>
        /\ DOMAIN heap[lastRet] =
               {"InstallationRequired", "UpdateRequired", "MissingRequirements",
                "Webview2NotInstalled", "Error", "FailedToInstall",
                "DownloadPage", "PressOKToInstall", "ContactAdmin",
                "InvalidFixedWebview2", "WebView2ProcessCrash"}
        /\ Cardinality(DOMAIN heap[lastRet]) = 11
        /\ \A f \in DOMAIN heap[lastRet] :
               heap[lastRet][f] # "" /\ heap[lastRet][f] # MessagesZero[f]

C3_Witness ==
    /\ lastOp = "DefaultMessages"
    /\ lastRet = 2
    /\ heap[1].Error = ""
    /\ heap[2].Error = "Error"

\* C7: every call of DefaultMessages() returns a new record; a caller's write
\* to one field of a returned record changes no other field of that record
\* and no field of another record; RGB touches no record; and every later
\* call of DefaultMessages() returns the same eleven default strings as the
\* first.
C7_Step ==
    /\ lastOp' = "write" =>
          /\ DOMAIN heap' = DOMAIN heap
          /\ Cardinality({s \in (DOMAIN heap) \X MessagesFields :
                              heap'[s[1]][s[2]] # heap[s[1]][s[2]]}) <= 1
    /\ lastOp' = "DefaultMessages" =>
          /\ lastRet' \notin DOMAIN heap
          /\ lastRet' \in DOMAIN heap'
          /\ \A q \in DOMAIN heap : heap'[q] = heap[q]
          /\ heap'[lastRet'] = firstDefaults'
          /\ heap'[lastRet'].Error = "Error"
          /\ heap'[lastRet'].MissingRequirements = "Missing Requirements"
    /\ lastOp' = "RGB" => heap' = heap

C7_MessagesOverridable == [][C7_Step]_vars

C7_Witness ==
    /\ lastOp = "DefaultMessages"
    /\ lastRet = 2
    /\ writes = 2
    /\ calls > 0
    /\ heap[1].Error = "custom"
    /\ heap[1].ContactAdmin = "custom"
    /\ heap[2] = firstDefaults

\* the mask of an option record, the flags OR-ed or assigned into it, and
\* those of them other than DLLSearchDefault
Mask(o) == opts[o].DLLSearchPaths
Flags(o) == chosen[o].DLLSearchPaths
NonDefault(o) == Flags(o) \ {"DLLSearchDefault"}

\* the bit positions set in a mask: position i + k for bit k of m
RECURSIVE BitsFrom(_, _)
BitsFrom(m, i) ==
    IF m = 0 THEN {}
    ELSE (IF m % 2 = 1 THEN {i} ELSE {}) \cup BitsFrom(m \div 2, i + 1)

BitPositions(m) == BitsFrom(m, 0)

\* the bit positions of each named flag
FlagBits == [n \in DLLSearchNames |-> BitPositions(DLLSearchValue[n])]

\* C4: within each enumeration every named constant has its own value: the
\* three Theme constants, the five BackdropType constants and the sixteen
\* DLLSearch* constants are pairwise different.
C4_EnumValuesDistinct ==
    /\ Cardinality(ThemeNames) = 3
    /\ Cardinality(BackdropTypeNames) = 5
    /\ Cardinality(DLLSearchNames) = 16
    /\ \A o1 \in OptionRecords, o2 \in OptionRecords :
        /\ (/\ chosen[o1].Theme \in ThemeNames
            /\ chosen[o2].Theme \in ThemeNames
            /\ chosen[o1].Theme # chosen[o2].Theme)
               => opts[o1].Theme # opts[o2].Theme
        /\ (/\ chosen[o1].BackdropType \in BackdropTypeNames
            /\ chosen[o2].BackdropType \in BackdropTypeNames
            /\ chosen[o1].BackdropType # chosen[o2].BackdropType)
               => opts[o1].BackdropType # opts[o2].BackdropType
        /\ (/\ Flags(o1) # {}
            /\ Flags(o2) # {}
            /\ Flags(o1) # Flags(o2))
               => Mask(o1) # Mask(o2)

C4_Witness ==
    /\ chosen["A"].Theme = "Dark"
    /\ chosen["B"].Theme = "Light"
    /\ chosen["A"].BackdropType = "Acrylic"
    /\ chosen["B"].BackdropType = "Tabbed"
    /\ Flags("A") = {"DLLSearchDefault"}
    /\ Flags("B") = {"DLLSearchOsIntegrityContinuity"}
    /\ opts["A"].Theme # opts["B"].Theme
    /\ opts["A"].BackdropType # opts["B"].BackdropType
    /\ Mask("A") # Mask("B")

\* C5: the DLL-search flags combine by bitwise OR without collision: every
\* non-default flag has exactly one bit set, no two flags share a bit, two
\* different sets of flags OR to different masks, and (OR(S) & f) # 0 exactly
\* when f is in S.
C5_FlagsCombine ==
    /\ \A o \in OptionRecords : \A n \in NonDefault(o) :
           Cardinality(FlagBits[n]) = 1
    /\ \A n1 \in NonDefault("A") \cup NonDefault("B") :
       \A n2 \in NonDefault("A") \cup NonDefault("B") :
           n1 # n2 => AndUint32(DLLSearchValue[n1], DLLSearchValue[n2]) = 0
    /\ NonDefault("A") # NonDefault("B") => Mask("A") # Mask("B")
    /\ \A o \in OptionRecords : \A f \in DLLSearchNames \ {"DLLSearchDefault"} :
           (AndUint32(Mask(o), DLLSearchValue[f]) # 0) <=> (f \in NonDefault(o))

C5_Witness ==
    /\ Flags("A") = {"DLLSearchApplicationDir", "DLLSearchSystem32"}
    /\ Flags("B") = {"DLLSearchApplicationDir", "DLLSearchUserDirs"}
    /\ AndUint32(Mask("A"), Mask("B")) = DLLSearchApplicationDir
    /\ Mask("A") = 2560
    /\ Mask("B") = 1536

\* C6 as stated: the bit positions 0..31 of the DLLSearchPaths mask and the
\* named DLLSearch* flags correspond one to one: every position is the value
\* of exactly one named flag and every named flag occupies exactly one
\* position.
C6_BitsOneToOne ==
    \A o \in OptionRecords :
        /\ \A i \in 0..31 :
               LET named == {n \in DLLSearchNames :
                                i \in FlagBits[n]}
               IN  /\ Cardinality(named) = 1
                   /\ (BitAt(Mask(o), i) = 1) <=> (named \subseteq Flags(o))
        /\ \A n \in DLLSearchNames :
               Cardinality(FlagBits[n]) = 1

\* the bit positions that carry a named flag
NamedBits == (0..15) \ {2}

\* C6 as amended: every named non-default flag occupies exactly one bit
\* position and no two flags share one, but only the fifteen positions 0, 1
\* and 3..15 carry a flag: DLLSearchDefault occupies none, and bit 2 and bits
\* 16..31 are set in no mask built from the named flags.
C6_FlagsToBitsInjective ==
    \A o \in OptionRecords :
      LET set == BitPositions(Mask(o)) IN
        /\ set = UNION {FlagBits[n] : n \in Flags(o)}
        /\ set \subseteq NamedBits
        /\ Cardinality(set) = Cardinality(NonDefault(o))
        /\ \A n \in NonDefault(o) :
               Cardinality(FlagBits[n]) = 1
        /\ "DLLSearchDefault" \in Flags(o) =>
               FlagBits["DLLSearchDefault"] = {}
        /\ set \cap ({2} \cup (16..31)) = {}

C6_Witness ==
    /\ Flags("A") = {"DLLSearchWithAlteredPath", "DLLSearchOsIntegrityContinuity"}
    /\ BitPositions(Mask("A")) = {3, 15}
    /\ Flags("B") = {"DLLSearchDefault", "DLLSearchDontResolveDllReferences"}
    /\ BitPositions(Mask("B")) = {0}

\* C8: a zero-valued Options record selects the defaults: Theme is
\* SystemDefault, BackdropType is Auto and DLLSearchPaths is DLLSearchDefault
\* (0); and DLLSearchDefault is the identity of combination: for every mask m
\* built by OR-ing flags, (m | DLLSearchDefault) = m and
\* (m & DLLSearchDefault) = 0.
C8_ZeroValueDefaults ==
    \A o \in OptionRecords :
        /\ chosen[o] = ChosenZero =>
              /\ opts[o].Theme = SystemDefault
              /\ opts[o].BackdropType = Auto
              /\ opts[o].DLLSearchPaths = DLLSearchDefault
              /\ DLLSearchDefault = 0
        /\ OrUint32(Mask(o), DLLSearchDefault) = Mask(o)
        /\ AndUint32(Mask(o), DLLSearchDefault) = 0
        /\ Flags(o) = {"DLLSearchDefault"} => opts[o] = OptionsZero

C8_Witness ==
    /\ chosen["A"] = ChosenZero
    /\ opts["A"] = OptionsZero
    /\ Flags("B") = {"DLLSearchApplicationDir", "DLLSearchSystem32"}
    /\ Mask("B") = 2560

====
